---- MODULE Spec2Model ----
(***************************************************************************)
(* Model of create_new_icon.py: the icon generator of calapp.              *)
(*                                                                         *)
(* Two specifications share this module.                                   *)
(*   Spec      the driver main(): the loop over the six sizes, the saves   *)
(*             into the output directory, the prints, and a save that      *)
(*             raises.  Images are carried by their header (mode, width,   *)
(*             height), which is what create_icon fixes for a given size.  *)
(*   IconSpec  create_icon(size) pixel by pixel: the background circles,   *)
(*             the glyph, the squircle mask rows and putalpha, for calls   *)
(*             made one after the other on the smallest generated sizes.   *)
(***************************************************************************)
EXTENDS Integers, Sequences, FiniteSets, TLC

VARIABLES
    \* ---- main() ----
    pc,         \* position in main()
    idx,        \* 1-based position of the for loop in sizes
    size,       \* main's loop variable
    icon,       \* main's local icon      (an image header, or NoImage)
    icon_2x,    \* main's local icon_2x   (an image header, or NoImage)
    dirExists,  \* whether output_dir exists on disk
    fs,         \* the files of output_dir: path -> file
    fs0,        \* fs as it was when main() started
    out,        \* what has been printed, in order
    writes,     \* the paths of the saves that succeeded, in order
    fault,      \* "none", or the exception that ended the script
    failedAt,   \* the path of the save that raised, or ""
    \* ---- create_icon(size) ----
    ipc,        \* position in create_icon and its helpers
    arg,        \* the size argument of the running call
    img,        \* the RGBA pixel buffer: pixel -> <<r, g, b, a>>
    mask,       \* the L pixel buffer of squircle_mask: pixel -> 0..255
    r,          \* loop variable of create_gradient_background
    color,      \* the fill colour of the last circle painted
    y,          \* outer loop variable of squircle_mask
    calls,      \* the sizes create_icon is still to be called with
    returned    \* the calls that returned: <<[size, img]>>, in order

mvars == <<pc, idx, size, icon, icon_2x, dirExists, fs, fs0, out, writes,
           fault, failedAt>>
ivars == <<ipc, arg, img, mask, r, color, y, calls, returned>>
vars  == <<pc, idx, size, icon, icon_2x, dirExists, fs, fs0, out, writes,
           fault, failedAt, ipc, arg, img, mask, r, color, y, calls,
           returned>>

(***************************************************************************)
(* Constants of main()                                                     *)
(***************************************************************************)
sizes_bug == <<16, 32, 128, 256, 1024, 512>>
sizes == <<16, 32, 128, 256, 512, 1024>>

output_dir == "CALAPP/Assets.xcassets/AppIcon.appiconset"

\* if size <= 256
Limit2x == 256

has_2x_bug(s) == s < Limit2x
has_2x(s) == s <= Limit2x

\* size * 2, the argument of the second create_icon call
size_2x_bug(s) == s + 2
size_2x(s) == s * 2

\* f"icon_{size}x{size}.png"
filename_bug(s) == "icon_" \o ToString(s) \o ".png"
filename(s) == "icon_" \o ToString(s) \o "x" \o ToString(s) \o ".png"

\* f"icon_{size}x{size}@2x.png"
filename_2x(s) == "icon_" \o ToString(s) \o "x" \o ToString(s) \o "@2x.png"

\* os.path.join(output_dir, name)
path_join(dir, name) == dir \o "/" \o name

filepath(s) == path_join(output_dir, filename(s))
filepath_2x(s) == path_join(output_dir, filename_2x(s))

\* The names the naming convention gives the six sizes: what may already lie
\* in the directory from an earlier run or another tool.
AllPaths ==
    {filepath(sizes[i]) : i \in 1..Len(sizes)}
        \cup {filepath_2x(sizes[i]) : i \in 1..Len(sizes)}

(***************************************************************************)
(* Images and files                                                        *)
(***************************************************************************)
NoImage == [mode |-> "none", width |-> 0, height |-> 0]

\* Image.new('RGBA', (size, size), ...): the header create_icon's image
\* keeps through drawing and putalpha (the mask has the same size).
create_icon(s) == [mode |-> "RGBA", width |-> s, height |-> s]

Absent == [kind |-> "absent", width |-> 0, height |-> 0]
\* A file left by an earlier run; its content is not this run's.
Stale == [kind |-> "stale", width |-> 1, height |-> 1]
\* A file a failed save has opened and not finished.
Partial == [kind |-> "partial", width |-> 0, height |-> 0]

\* icon.save(filepath, "PNG") that returns
PngOf(image) == [kind |-> "png", width |-> image.width, height |-> image.height]

\* The directories main() may start in: output_dir missing, or present with
\* none, one or all of the conventional names already there.
StartDirs ==
    {[p \in AllPaths |-> Absent], [p \in AllPaths |-> Stale]}
        \cup {[p \in AllPaths |-> IF p = q THEN Stale ELSE Absent] : q \in AllPaths}

(***************************************************************************)
(* create_icon: state when no call has been made                           *)
(***************************************************************************)
NoPixels == <<>>

IconIdle ==
    /\ ipc = "idle"
    /\ arg = 0
    /\ img = NoPixels
    /\ mask = NoPixels
    /\ r = 0
    /\ color = <<>>
    /\ y = 0
    /\ calls = <<>>
    /\ returned = <<>>


(***************************************************************************)
(* create_icon(size), pixel by pixel                                       *)
(***************************************************************************)
\* The calls main() makes, in its order: create_icon(size) and, when
\* size <= 256, create_icon(size * 2).
RECURSIVE MainCallsFrom(_)
MainCallsFrom(i) ==
    IF i > Len(sizes) THEN <<>>
    ELSE <<sizes[i]>>
             \o (IF has_2x(sizes[i]) THEN <<size_2x(sizes[i])>> ELSE <<>>)
             \o MainCallsFrom(i + 1)

MainCalls == MainCallsFrom(1)

GeneratedDims == {MainCalls[i] : i \in 1..Len(MainCalls)}

\* The model runs the NumDims smallest pixel dimensions main() generates.
NumDims == 2

Dims == {d \in GeneratedDims : Cardinality({e \in GeneratedDims : e < d}) < NumDims}

InDims(d) == d \in Dims

\* main()'s calls on those dimensions, and every tail of them (a caller that
\* starts later in the sequence: the same call with other calls before it).
BoundedCalls == SelectSeq(MainCalls, InDims)

CallSeqs == {SubSeq(BoundedCalls, k, Len(BoundedCalls)) : k \in 1..Len(BoundedCalls)}

Pix(s) == (0..(s - 1)) \X (0..(s - 1))

Abs(v) == IF v < 0 THEN -v ELSE v

\* int(math.sqrt(n)) for n >= 0
Isqrt(n) == CHOOSE k \in 0..n : k * k <= n /\ n < (k + 1) * (k + 1)

\* ---- ImageDraw: the shapes, as sets of pixels ----
\* A box is <<x0, y0, x1, y1>>, both corners included.  A pixel lies in the
\* ellipse inscribed in the box when, measured in half pixels from the box's
\* centre, (dx/w)^2 + (dy/h)^2 <= 1.
EllipseDx(p, box) == 2 * p[1] - (box[1] + box[3])
EllipseDy(p, box) == 2 * p[2] - (box[2] + box[4])
BoxW(box) == box[3] - box[1]
BoxH(box) == box[4] - box[2]

InEllipse(p, box) ==
    /\ BoxW(box) >= 0
    /\ BoxH(box) >= 0
    /\ EllipseDx(p, box) * EllipseDx(p, box) * BoxH(box) * BoxH(box)
         + EllipseDy(p, box) * EllipseDy(p, box) * BoxW(box) * BoxW(box)
         <= BoxW(box) * BoxW(box) * BoxH(box) * BoxH(box)
    /\ p[1] >= box[1] /\ p[1] <= box[3]
    /\ p[2] >= box[2] /\ p[2] <= box[4]

StrictlyInEllipse(p, box) ==
    /\ BoxW(box) > 0
    /\ BoxH(box) > 0
    /\ EllipseDx(p, box) * EllipseDx(p, box) * BoxH(box) * BoxH(box)
         + EllipseDy(p, box) * EllipseDy(p, box) * BoxW(box) * BoxW(box)
         < BoxW(box) * BoxW(box) * BoxH(box) * BoxH(box)

Shrink(box, w) == <<box[1] + w, box[2] + w, box[3] - w, box[4] - w>>

\* draw.arc(bbox, 45, 315, width=w): the ring of thickness w inside the
\* ellipse, over the angles from 45 to 315 degrees (clockwise from three
\* o'clock, y down): everything but the open wedge |dy| < dx.
InArc45To315(p, box, w) ==
    /\ InEllipse(p, box)
    /\ ~StrictlyInEllipse(p, Shrink(box, w))
    /\ ~(EllipseDx(p, box) > 0 /\ Abs(EllipseDy(p, box)) < EllipseDx(p, box))

\* draw.ellipse(box, fill=c) / draw.arc(..., fill=c): the pixels of the shape
\* take the colour, alpha included (ImageDraw does not blend on RGBA).
FillEllipse(image, s, box, c) ==
    [p \in Pix(s) |-> IF InEllipse(p, box) THEN c ELSE image[p]]

FillArc(image, s, box, w, c) ==
    [p \in Pix(s) |-> IF InArc45To315(p, box, w) THEN c ELSE image[p]]

\* ---- create_gradient_background ----
Black == <<0, 0, 0, 255>>
White == <<255, 255, 255, 255>>

\* Image.new('RGBA', (size, size), (0, 0, 0, 255))
new_rgba_bug(s) == [p \in Pix(s) |-> IF color = <<>> THEN Black ELSE color]
new_rgba(s) == [p \in Pix(s) |-> Black]

\* center = size // 2
center(s) == s \div 2

\* max_radius = int(size * 0.7)
max_radius(s) == (s * 7) \div 10

\* alpha = 1 - (r / max_radius); gray_value = int(120 * alpha)
gray_value_bug(rr, mr) == (120 * rr) \div mr
gray_value(rr, mr) == (120 * (mr - rr)) \div mr

\* color = (gray_value, gray_value, gray_value, 255)
circle_color(rr, mr) ==
    <<gray_value(rr, mr), gray_value(rr, mr), gray_value(rr, mr), 255>>

\* [left, top, right, bottom]
circle_box(s, rr) ==
    <<center(s) - rr, center(s) - rr, center(s) + rr, center(s) + rr>>

\* ---- draw_c_logo ----
\* outer_radius = int(size * 0.29)
outer_radius(s) == (s * 29) \div 100

\* stroke_width = int(size * 0.09)
stroke_width(s) == (s * 9) \div 100

\* cap_radius = stroke_width // 2
cap_radius(s) == stroke_width(s) \div 2

\* bbox
logo_box(s) ==
    <<center(s) - outer_radius(s), center(s) - outer_radius(s),
      center(s) + outer_radius(s), center(s) + outer_radius(s)>>

\* outer_radius * cos(45 degrees) = sqrt(outer_radius^2 / 2), never a whole
\* number for outer_radius > 0: its integer part.
CosOffset(s) == Isqrt((outer_radius(s) * outer_radius(s)) \div 2)

\* The end caps' boxes, their float corners cut to integers as ImageDraw
\* does (towards zero; every corner is positive here).
\* top_x = center + outer_radius*cos(315), top_y = center + outer_radius*sin(315)
top_cap_box(s) ==
    IF outer_radius(s) = 0
    THEN <<center(s) - cap_radius(s), center(s) - cap_radius(s),
           center(s) + cap_radius(s), center(s) + cap_radius(s)>>
    ELSE <<center(s) + CosOffset(s) - cap_radius(s),
           center(s) - CosOffset(s) - 1 - cap_radius(s),
           center(s) + CosOffset(s) + cap_radius(s),
           center(s) - CosOffset(s) - 1 + cap_radius(s)>>

\* bottom_x = center + outer_radius*cos(45), bottom_y = center + outer_radius*sin(45)
bottom_cap_box(s) ==
    <<center(s) + CosOffset(s) - cap_radius(s),
      center(s) + CosOffset(s) - cap_radius(s),
      center(s) + CosOffset(s) + cap_radius(s),
      center(s) + CosOffset(s) + cap_radius(s)>>

draw_c_logo(image, s) ==
    FillEllipse(
        FillEllipse(
            FillArc(image, s, logo_box(s), stroke_width(s), White),
            s, top_cap_box(s), White),
        s, bottom_cap_box(s), White)

\* ---- squircle_mask ----
\* Python's float arithmetic on size / 2, abs(x - cx) / a and dx ** n is
\* exact for the generated sizes (powers of two, at most 1024: every
\* intermediate value fits a double's 53 bits), so the floats are modelled
\* by the fractions they equal: <<numerator, denominator>> in lowest terms.
RECURSIVE Gcd(_, _)
Gcd(a, b) == IF b = 0 THEN a ELSE Gcd(b, a % b)

Frac(num, den) ==
    IF num = 0 THEN <<0, 1>>
    ELSE <<num \div Gcd(Abs(num), den), den \div Gcd(Abs(num), den)>>

FracOfInt(v) == <<v, 1>>
FracSub(f, g) == Frac(f[1] * g[2] - g[1] * f[2], f[2] * g[2])
FracAbs(f) == <<Abs(f[1]), f[2]>>
FracDiv(f, g) == Frac(f[1] * g[2], f[2] * g[1])
FracAdd(f, g) ==
    Frac(f[1] * (g[2] \div Gcd(f[2], g[2])) + g[1] * (f[2] \div Gcd(f[2], g[2])),
         f[2] * (g[2] \div Gcd(f[2], g[2])))
FracLeq(f, g) == f[1] * g[2] <= g[1] * f[2]

RECURSIVE IntPow(_, _)
IntPow(b, e) == IF e = 0 THEN 1 ELSE b * IntPow(b, e - 1)

FracPow(f, e) == <<IntPow(f[1], e), IntPow(f[2], e)>>

\* n = 5.0
n == 5

\* a = b = size / 2
semi_axis(s) == Frac(s, 2)

\* cx = cy = size / 2
mask_center_bug(s) == Frac(s - 1, 2)
mask_center(s) == Frac(s, 2)

\* dx = abs(x - cx) / a
mask_dx(x, s) == FracDiv(FracAbs(FracSub(FracOfInt(x), mask_center(s))), semi_axis(s))

\* if (dx ** n + dy ** n) <= 1
in_squircle_bug(x, yy, s) ==
    FracLeq(FracAdd(FracPow(mask_dx(x, s), 2), FracPow(mask_dx(yy, s), 2)),
            FracOfInt(1))
in_squircle(x, yy, s) ==
    FracLeq(FracAdd(FracPow(mask_dx(x, s), n), FracPow(mask_dx(yy, s), n)),
            FracOfInt(1))

\* mask = Image.new('L', (size, size), 0)
new_mask(s) == [p \in Pix(s) |-> 0]

\* for x in range(size): ... pixels[x, y] = 255, for one y
mask_row(m, s, yy) ==
    [p \in Pix(s) |-> IF p[2] = yy /\ in_squircle(p[1], yy, s) THEN 255 ELSE m[p]]

\* ---- create_icon ----
\* img.putalpha(mask): the mask becomes the alpha band, the colour bands stay
putalpha_bug(image, m, s) ==
    [p \in Pix(s) |-> IF m[p] = 0 THEN <<0, 0, 0, 0>>
                      ELSE <<image[p][1], image[p][2], image[p][3], m[p]>>]
putalpha(image, m, s) ==
    [p \in Pix(s) |-> <<image[p][1], image[p][2], image[p][3], m[p]>>]

MainIdle ==
    /\ pc = "start"
    /\ idx = 1
    /\ size = 0
    /\ icon = NoImage
    /\ icon_2x = NoImage
    /\ dirExists = TRUE
    /\ fs = [p \in AllPaths |-> Absent]
    /\ fs0 = fs
    /\ out = <<>>
    /\ writes = <<>>
    /\ fault = "none"
    /\ failedAt = ""

IconInit ==
    /\ MainIdle
    /\ ipc = "idle"
    /\ arg = 0
    /\ img = NoPixels
    /\ mask = NoPixels
    /\ r = 0
    /\ color = <<>>
    /\ y = 0
    /\ calls \in CallSeqs
    /\ returned = <<>>

\* create_icon(size) is called: create_gradient_background allocates img
Call ==
    /\ UNCHANGED mvars
    /\ ipc = "idle"
    /\ calls # <<>>
    /\ arg' = Head(calls)
    /\ calls' = Tail(calls)
    /\ img' = new_rgba(Head(calls))
    /\ r' = max_radius(Head(calls))
    /\ ipc' = "background"
    /\ UNCHANGED <<mask, color, y, returned>>

\* for r in range(max_radius, 0, -1): one circle, or the end of the loop
PaintCircle ==
    /\ UNCHANGED mvars
    /\ ipc = "background"
    /\ IF r > 0
       THEN /\ color' = circle_color(r, max_radius(arg))
            /\ img' = FillEllipse(img, arg, circle_box(arg, r),
                                  circle_color(r, max_radius(arg)))
            /\ r' = r - 1
            /\ ipc' = "background"
       ELSE /\ ipc' = "logo"
            /\ UNCHANGED <<color, img, r>>
    /\ UNCHANGED <<arg, mask, y, calls, returned>>

\* draw = ImageDraw.Draw(img); draw_c_logo(draw, size)
DrawCLogo ==
    /\ UNCHANGED mvars
    /\ ipc = "logo"
    /\ img' = draw_c_logo(img, arg)
    /\ ipc' = "mask"
    /\ UNCHANGED <<arg, mask, r, color, y, calls, returned>>

\* mask = squircle_mask(size): the buffer is allocated
MaskNew ==
    /\ UNCHANGED mvars
    /\ ipc = "mask"
    /\ mask' = new_mask(arg)
    /\ y' = 0
    /\ ipc' = "rows"
    /\ UNCHANGED <<arg, img, r, color, calls, returned>>

\* for y in range(size): one row of the mask, or the end of the loop
MaskRow ==
    /\ UNCHANGED mvars
    /\ ipc = "rows"
    /\ IF y < arg
       THEN /\ mask' = mask_row(mask, arg, y)
            /\ y' = y + 1
            /\ ipc' = "rows"
       ELSE /\ ipc' = "putalpha"
            /\ UNCHANGED <<mask, y>>
    /\ UNCHANGED <<arg, img, r, color, calls, returned>>

\* img.putalpha(mask)
PutAlpha ==
    /\ UNCHANGED mvars
    /\ ipc = "putalpha"
    /\ img' = putalpha(img, mask, arg)
    /\ ipc' = "return"
    /\ UNCHANGED <<arg, mask, r, color, y, calls, returned>>

\* return img
Return ==
    /\ UNCHANGED mvars
    /\ ipc = "return"
    /\ returned' = Append(returned, [size |-> arg, img |-> img])
    /\ ipc' = "idle"
    /\ UNCHANGED <<arg, img, mask, r, color, y, calls>>

IconNext ==
    \/ Call
    \/ PaintCircle
    \/ DrawCLogo
    \/ MaskNew
    \/ MaskRow
    \/ PutAlpha
    \/ Return

IconSpec == IconInit /\ [][IconNext]_vars

(***************************************************************************)
(* main()                                                                  *)
(***************************************************************************)
Init ==
    /\ pc = "start"
    /\ idx = 1
    /\ size = 0
    /\ icon = NoImage
    /\ icon_2x = NoImage
    /\ dirExists \in BOOLEAN
    /\ fs \in StartDirs
    /\ dirExists = FALSE => fs = [p \in AllPaths |-> Absent]
    /\ fs0 = fs
    /\ out = <<>>
    /\ writes = <<>>
    /\ fault = "none"
    /\ failedAt = ""
    /\ IconIdle

\* print("Creating new squircle app icon..."); the printed texts are kept
\* without their leading pictograph and spaces.
MainStart ==
    /\ UNCHANGED ivars
    /\ pc = "start"
    /\ out' = Append(out, "Creating new squircle app icon...")
    /\ pc' = "for"
    /\ UNCHANGED <<idx, size, icon, icon_2x, dirExists, fs, fs0, writes, fault,
                   failedAt>>

\* for size in sizes: the next size and its print, or the end of the loop
ForNext ==
    /\ UNCHANGED ivars
    /\ pc = "for"
    /\ IF idx <= Len(sizes)
       THEN /\ size' = sizes[idx]
            /\ out' = Append(out, "Generating " \o ToString(sizes[idx]) \o "x"
                                  \o ToString(sizes[idx]) \o " icon...")
            /\ pc' = "create"
       ELSE /\ pc' = "success"
            /\ UNCHANGED <<size, out>>
    /\ UNCHANGED <<idx, icon, icon_2x, dirExists, fs, fs0, writes, fault, failedAt>>

\* icon = create_icon(size)
CreateIcon ==
    /\ UNCHANGED ivars
    /\ pc = "create"
    /\ icon' = create_icon(size)
    /\ pc' = "save"
    /\ UNCHANGED <<idx, size, icon_2x, dirExists, fs, fs0, out, writes, fault,
                   failedAt>>

\* image.save(path, "PNG") returning: the file holds the image
SaveOk(image, path, next) ==
    /\ dirExists
    /\ fs' = [fs EXCEPT ![path] = PngOf(image)]
    /\ writes' = Append(writes, path)
    /\ pc' = next
    /\ UNCHANGED <<fault, failedAt>>

\* image.save(path, "PNG") raising (no directory, or the write fails): nothing
\* in main() catches it, the script ends.  The file being written is left as
\* it was or, once opened for writing, unfinished.
SaveRaisesCaught(image, path, next) ==
    /\ fault' = "OSError"
    /\ failedAt' = path
    /\ pc' = next
    /\ \/ fs' = fs
       \/ dirExists /\ fs' = [fs EXCEPT ![path] = Partial]
    /\ UNCHANGED writes

SaveRaises(image, path, next) ==
    /\ fault' = "OSError"
    /\ failedAt' = path
    /\ pc' = "crashed"
    /\ \/ fs' = fs
       \/ dirExists /\ fs' = [fs EXCEPT ![path] = Partial]
    /\ UNCHANGED writes

\* icon.save(filepath, "PNG")
SaveIcon ==
    /\ UNCHANGED ivars
    /\ pc = "save"
    /\ \/ SaveOk(icon, filepath(size), "test")
       \/ SaveRaises(icon, filepath(size), "test")
    /\ UNCHANGED <<idx, size, icon, icon_2x, dirExists, fs0, out>>

\* if size <= 256
TestSize ==
    /\ UNCHANGED ivars
    /\ pc = "test"
    /\ IF has_2x(size)
       THEN pc' = "create_2x" /\ idx' = idx
       ELSE pc' = "for" /\ idx' = idx + 1
    /\ UNCHANGED <<size, icon, icon_2x, dirExists, fs, fs0, out, writes, fault,
                   failedAt>>

\* icon_2x = create_icon(size * 2)
CreateIcon2x ==
    /\ UNCHANGED ivars
    /\ pc = "create_2x"
    /\ icon_2x' = create_icon(size_2x(size))
    /\ pc' = "save_2x"
    /\ UNCHANGED <<idx, size, icon, dirExists, fs, fs0, out, writes, fault,
                   failedAt>>

\* icon_2x.save(filepath_2x, "PNG")
SaveIcon2x ==
    /\ UNCHANGED ivars
    /\ pc = "save_2x"
    /\ \/ SaveOk(icon_2x, filepath_2x(size), "print_2x")
       \/ SaveRaises(icon_2x, filepath_2x(size), "print_2x")
    /\ UNCHANGED <<idx, size, icon, icon_2x, dirExists, fs0, out>>

\* print(f"Generating {size}x{size}@2x icon..."), then the next iteration
Print2x ==
    /\ UNCHANGED ivars
    /\ pc = "print_2x"
    /\ out' = Append(out, "Generating " \o ToString(size) \o "x"
                          \o ToString(size) \o "@2x icon...")
    /\ idx' = idx + 1
    /\ pc' = "for"
    /\ UNCHANGED <<size, icon, icon_2x, dirExists, fs, fs0, writes, fault,
                   failedAt>>

SuccessMessage == "New squircle app icon created successfully!"

\* print("New squircle app icon created successfully!")
PrintSuccess ==
    /\ UNCHANGED ivars
    /\ pc = "success"
    /\ out' = Append(out, SuccessMessage)
    /\ pc' = "done"
    /\ UNCHANGED <<idx, size, icon, icon_2x, dirExists, fs, fs0, writes, fault,
                   failedAt>>

Next ==
    \/ MainStart
    \/ ForNext
    \/ CreateIcon
    \/ SaveIcon
    \/ TestSize
    \/ CreateIcon2x
    \/ SaveIcon2x
    \/ Print2x
    \/ PrintSuccess

Spec == Init /\ [][Next]_vars

(***************************************************************************)
(* The claims about main(), checked under Spec                             *)
(***************************************************************************)
Range(seq) == {seq[i] : i \in 1..Len(seq)}

ClaimSizes == {16, 32, 128, 256, 512, 1024}

ExpectedBase(s) ==
    CASE s = 16 -> "CALAPP/Assets.xcassets/AppIcon.appiconset/icon_16x16.png"
      [] s = 32 -> "CALAPP/Assets.xcassets/AppIcon.appiconset/icon_32x32.png"
      [] s = 128 -> "CALAPP/Assets.xcassets/AppIcon.appiconset/icon_128x128.png"
      [] s = 256 -> "CALAPP/Assets.xcassets/AppIcon.appiconset/icon_256x256.png"
      [] s = 512 -> "CALAPP/Assets.xcassets/AppIcon.appiconset/icon_512x512.png"
      [] s = 1024 -> "CALAPP/Assets.xcassets/AppIcon.appiconset/icon_1024x1024.png"

Expected2x(s) ==
    CASE s = 16 -> "CALAPP/Assets.xcassets/AppIcon.appiconset/icon_16x16@2x.png"
      [] s = 32 -> "CALAPP/Assets.xcassets/AppIcon.appiconset/icon_32x32@2x.png"
      [] s = 128 -> "CALAPP/Assets.xcassets/AppIcon.appiconset/icon_128x128@2x.png"
      [] s = 256 -> "CALAPP/Assets.xcassets/AppIcon.appiconset/icon_256x256@2x.png"
      [] s = 512 -> "CALAPP/Assets.xcassets/AppIcon.appiconset/icon_512x512@2x.png"
      [] s = 1024 -> "CALAPP/Assets.xcassets/AppIcon.appiconset/icon_1024x1024@2x.png"

\* The ten writes of a run without a fault, in order, and the pixel
\* dimension of each.
ExpectedWrites ==
    <<ExpectedBase(16), Expected2x(16), ExpectedBase(32), Expected2x(32),
      ExpectedBase(128), Expected2x(128), ExpectedBase(256), Expected2x(256),
      ExpectedBase(512), ExpectedBase(1024)>>

ExpectedDims == <<16, 32, 32, 64, 128, 256, 256, 512, 512, 1024>>

\* The file at path exists and holds a w by h image written in this run.
HoldsPng(path, w, h) ==
    /\ path \in DOMAIN fs
    /\ fs[path] = [kind |-> "png", width |-> w, height |-> h]

Written(path) == path \in Range(writes)

Untouched(path) == path \in DOMAIN fs /\ fs[path] = fs0[path]

\* C1: once main() has run to completion, for every size s of {16, 32, 128,
\* 256, 512, 1024} the file icon_<s>x<s>.png exists in the output directory
\* and holds an image exactly s pixels wide and s pixels high.
C1_BaseFilesExact ==
    pc = "done" => \A s \in ClaimSizes : HoldsPng(ExpectedBase(s), s, s)

\* C1 witness: a completed run that overwrote a stale icon_16x16.png.
C1_Witness ==
    /\ pc = "done"
    /\ fault = "none"
    /\ fs0[ExpectedBase(16)].kind = "stale"
    /\ fs[ExpectedBase(1024)].kind = "png"

\* C2: every @2x file main() has written holds an image of exactly 2s by 2s
\* pixels, twice the width and height of the image written to its base
\* counterpart in the same run.
C2_RetinaTwiceBase ==
    \A s \in ClaimSizes :
        (Expected2x(s) \in DOMAIN fs /\ fs[Expected2x(s)].kind = "png") =>
            /\ HoldsPng(Expected2x(s), 2 * s, 2 * s)
            /\ HoldsPng(ExpectedBase(s), s, s)
            /\ fs[Expected2x(s)].width = 2 * fs[ExpectedBase(s)].width
            /\ fs[Expected2x(s)].height = 2 * fs[ExpectedBase(s)].height

\* C2 witness: icon_256x256@2x.png has been written.
C2_Witness ==
    /\ fs[Expected2x(256)].kind = "png"
    /\ fs[Expected2x(256)].width = 512

\* C4 as stated: a completed run has written both icon_<s>x<s>.png and
\* icon_<s>x<s>@2x.png for every one of the six sizes.
C4_Original ==
    pc = "done" =>
        \A s \in ClaimSizes : Written(ExpectedBase(s)) /\ Written(Expected2x(s))

\* C4 amended: a completed run has written icon_<s>x<s>.png for every one of
\* the six sizes and icon_<s>x<s>@2x.png for the sizes up to 256 (16, 32, 128,
\* 256); for 512 and 1024 no @2x file is written and whatever lay at that
\* name is left as it was.
C4_BaseAllRetinaUpTo256 ==
    pc = "done" =>
        \A s \in ClaimSizes :
            /\ Written(ExpectedBase(s))
            /\ fs[ExpectedBase(s)].kind = "png"
            /\ s <= 256 => Written(Expected2x(s)) /\ fs[Expected2x(s)].kind = "png"
            /\ s > 256 => ~Written(Expected2x(s)) /\ Untouched(Expected2x(s))

\* C4 witness: a completed run with icon_256x256@2x.png written and a stale
\* icon_512x512@2x.png still lying there.
C4_Witness ==
    /\ pc = "done"
    /\ Written(Expected2x(256))
    /\ fs[Expected2x(512)].kind = "stale"

\* C5: once a save has raised, the script has ended there: nothing is
\* enabled, the failing save was not retried, no file later in the write
\* sequence has been written or touched, the success message has not been
\* printed, and the files written before the failure hold what was written.
C5_SaveFaultEndsRun ==
    fault # "none" =>
        /\ pc = "crashed"
        /\ ~ENABLED Next
        /\ ~(SuccessMessage \in Range(out))
        /\ ~Written(failedAt)
        /\ \E k \in 1..Len(ExpectedWrites) :
            /\ failedAt = ExpectedWrites[k]
            /\ Len(writes) = k - 1
            /\ \A j \in 1..(k - 1) :
                /\ writes[j] = ExpectedWrites[j]
                /\ HoldsPng(ExpectedWrites[j], ExpectedDims[j], ExpectedDims[j])
            /\ \A j \in (k + 1)..Len(ExpectedWrites) :
                /\ ~Written(ExpectedWrites[j])
                /\ Untouched(ExpectedWrites[j])

\* C5 witness: the save of icon_128x128@2x.png raised after five files were
\* written, leaving an unfinished file.
C5_Witness ==
    /\ fault = "OSError"
    /\ failedAt = Expected2x(128)
    /\ Len(writes) = 5
    /\ fs[failedAt].kind = "partial"

\* C9: the saves that succeed are always a prefix of the ten expected writes
\* (sizes ascending, base before @2x, both before the next size), so no path
\* is written twice; a run that completes has made exactly those ten writes.
C9_TenWritesInOrder ==
    /\ Len(writes) <= Len(ExpectedWrites)
    /\ \A j \in 1..Len(writes) : writes[j] = ExpectedWrites[j]
    /\ \A j, k \in 1..Len(writes) : j # k => writes[j] # writes[k]
    /\ Cardinality(Range(ExpectedWrites)) = 10
    /\ pc = "done" => writes = ExpectedWrites /\ Len(writes) = 10

\* C9 witness: a completed run with ten writes.
C9_Witness ==
    /\ pc = "done"
    /\ Len(writes) = 10
    /\ writes[10] = ExpectedBase(1024)

(***************************************************************************)
(* The claims about create_icon and its helpers, checked under IconSpec    *)
(***************************************************************************)
Fifth(v) == v * v * v * v * v

\* |2x - size|^5 + |2y - size|^5 against size^5, written so that no
\* intermediate value exceeds size^5.
StrictlyInside(p, s) ==
    Fifth(Abs(2 * p[1] - s)) < Fifth(s) - Fifth(Abs(2 * p[2] - s))

StrictlyOutside(p, s) ==
    Fifth(Abs(2 * p[1] - s)) > Fifth(s) - Fifth(Abs(2 * p[2] - s))

OnBoundary(p, s) ==
    Fifth(Abs(2 * p[1] - s)) = Fifth(s) - Fifth(Abs(2 * p[2] - s))

LastReturned == returned[Len(returned)]

Returning == ipc = "idle" /\ returned # <<>>

\* C3: in every image create_icon(size) returns, a pixel (x, y) with
\* |2x - size|^5 + |2y - size|^5 < size^5 has a non-zero alpha and one with
\* |2x - size|^5 + |2y - size|^5 > size^5 has alpha zero.
C3_AlphaFollowsSuperellipse ==
    Returning =>
        \A p \in Pix(LastReturned.size) :
            /\ StrictlyInside(p, LastReturned.size) => LastReturned.img[p][4] # 0
            /\ StrictlyOutside(p, LastReturned.size) => LastReturned.img[p][4] = 0

\* C3 witness: a returned 32 pixel image with an opaque pixel strictly inside
\* near the corner (beyond the inscribed circle) and a transparent one
\* strictly outside.
C3_Witness ==
    /\ Returning
    /\ LastReturned.size = 32
    /\ StrictlyInside(<<4, 4>>, 32)
    /\ LastReturned.img[<<4, 4>>][4] = 255
    /\ StrictlyOutside(<<1, 1>>, 32)
    /\ LastReturned.img[<<1, 1>>][4] = 0

\* C6: the putalpha step of create_icon changes only the alpha channel: each
\* pixel's alpha becomes the mask value there (0 or 255) and its red, green
\* and blue stay what the background and glyph drawing left.
C6_PutAlphaOnlyAlpha ==
    [][ipc = "putalpha" =>
          \A p \in Pix(arg) :
              /\ img'[p][4] = mask[p]
              /\ mask[p] \in {0, 255}
              /\ img'[p][1] = img[p][1]
              /\ img'[p][2] = img[p][2]
              /\ img'[p][3] = img[p][3]]_vars

\* C6 witness: after putalpha a transparent pixel keeps a non-black colour
\* and a glyph pixel is opaque white.
C6_Witness ==
    /\ ipc = "return"
    /\ \E p \in Pix(arg) : img[p][4] = 0 /\ mask[p] = 0 /\ img[p][1] > 0
    /\ \E p \in Pix(arg) : img[p] = White

InLoopAfterFirst == ipc = "background" /\ r > 0 /\ r < max_radius(arg)

\* C7 as stated: each circle's fill colour has a lower alpha component than
\* that of the circle painted before it.
C7_Original ==
    [][InLoopAfterFirst => color'[4] < color[4]]_vars

\* C7 amended: every circle is painted fully opaque (alpha 255); what changes
\* from one circle to the next is the gray value, which never decreases as
\* the radius goes down from floor(0.7 * size) to 1.
C7_OpaqueCirclesGrayRising ==
    [][InLoopAfterFirst =>
          /\ color[4] = 255
          /\ color'[4] = 255
          /\ color'[1] >= color[1]
          /\ color'[2] = color'[1]
          /\ color'[3] = color'[1]]_vars

\* C7 witness: several circles painted, the last one gray and opaque.
C7_Witness ==
    /\ ipc = "background"
    /\ r < max_radius(arg) - 2
    /\ color[1] > 0
    /\ color[4] = 255

\* C8: two calls of create_icon with the same size return pixel-identical
\* images, whatever was called before them.  In main()'s call order the
\* second and third calls are create_icon(16 * 2) and create_icon(32), saved
\* as icon_16x16@2x.png and icon_32x32.png.
C8_SameSizeSameImage ==
    \A i, j \in 1..Len(returned) :
        returned[i].size = returned[j].size => returned[i].img = returned[j].img

\* C8 witness: main()'s first three calls have returned: 16, then 32 twice,
\* the first 32 after a call of another size and the second after a call of
\* the same size.
C8_Witness ==
    /\ Len(returned) = 3
    /\ returned[1].size = 16
    /\ returned[2].size = 32
    /\ returned[3].size = 32
    /\ returned[2].img = returned[3].img

Opaque(x, yy) == mask[<<x, yy>>] = 255

MaskDone == ipc = "putalpha"

\* C10: the finished mask is symmetric under swapping x and y and opaque on
\* the boundary, and sits one pixel towards the top-left: column 0 and row 0
\* each hold exactly one opaque pixel, (0, size/2) and (size/2, 0), the last
\* column and last row each hold more than one, and for 1 <= x <= size - 1
\* pixel (x, y) is opaque exactly when (size - x, y) is.
C10_MaskOffsetTopLeft ==
    MaskDone =>
        /\ \A p \in Pix(arg) : mask[p] \in {0, 255}
        /\ \A p \in Pix(arg) : Opaque(p[1], p[2]) = Opaque(p[2], p[1])
        /\ \A p \in Pix(arg) : OnBoundary(p, arg) => Opaque(p[1], p[2])
        /\ {yy \in 0..(arg - 1) : Opaque(0, yy)} = {arg \div 2}
        /\ {x \in 0..(arg - 1) : Opaque(x, 0)} = {arg \div 2}
        /\ Cardinality({yy \in 0..(arg - 1) : Opaque(arg - 1, yy)}) > 1
        /\ Cardinality({x \in 0..(arg - 1) : Opaque(x, arg - 1)}) > 1
        /\ \A x \in 1..(arg - 1) : \A yy \in 0..(arg - 1) :
              Opaque(x, yy) = Opaque(arg - x, yy)

\* C10 witness: a finished 32 pixel mask whose boundary pixel (0, 16) is
\* opaque while (31, 16) and its neighbours are opaque too.
C10_Witness ==
    /\ MaskDone
    /\ arg = 32
    /\ OnBoundary(<<0, 16>>, 32)
    /\ Opaque(0, 16)
    /\ ~Opaque(0, 15)
    /\ Opaque(31, 15)
    /\ Opaque(31, 16)

====
